---- MODULE Spec2Model ----
(***************************************************************************)
(* Model of the FOSDEM schedule transformation (src/src/lib/fosdem.ts):    *)
(* the event classifier EventProcessor.processEvent and the single-pass    *)
(* aggregation processScheduleData over the day -> room -> event tree,     *)
(* and of buildData and the handlers' runs around them.                    *)
(*                                                                         *)
(* Text that the code inspects character by character (titles, track       *)
(* names, room names) is a sequence of one-character strings; text that    *)
(* the code only compares or uses as a key (type, id, slug) is a string.   *)
(* A missing or empty text node (falsy in the code) is the empty text.     *)
(***************************************************************************)
EXTENDS Integers, Sequences, FiniteSets, TLC

VARIABLES
    pc,         \* position of processScheduleData: days | rooms | events | done | failed
    types,      \* result.types
    buildings,  \* result.buildings
    days,       \* result.days
    rooms,      \* result.rooms
    tracks,     \* result.tracks
    events,     \* result.events
    dayInfo,    \* the DayInfo under construction (local of the day loop)
    room,       \* the raw room of the current room iteration
    xmlEvent,   \* the raw event of the latest event iteration
    accepted,   \* history: the events processEvent accepted so far, in processing order
    nDays, nRooms, nEvents,  \* sizes of the input consumed so far
    roomNameCache,  \* the cache of the memoized getRoomName (module level)
    statusCache,    \* the cache of the memoized getStatus (module level)
    runs,       \* per handler: the run it started, as far as it has come
    owner,      \* the run whose processScheduleData call is on the stack
    store,      \* env.R2: object key -> body
    solo,       \* history: the run that has the process to itself since it was loaded
    reference   \* history: document -> outcome of a run that had the process to itself

procVars == <<runs, owner, store, solo, reference>>

vars == <<pc, types, buildings, days, rooms, tracks, events, dayInfo, room,
          xmlEvent, accepted, nDays, nRooms, nEvents, roomNameCache, statusCache,
          runs, owner, store, solo, reference>>

----------------------------------------------------------------------------
(* Bounds of the explored inputs. *)

MaxDays == 2

MaxRooms == 2

MaxEvents == 2

----------------------------------------------------------------------------
(* Text primitives (JavaScript String methods used by the code). *)

UpperCase == {"A", "B", "C", "D", "E", "F", "G", "H", "I", "J", "K", "L", "M",
              "N", "O", "P", "Q", "R", "S", "T", "U", "V", "W", "X", "Y", "Z"}

Digits == {"0", "1", "2", "3", "4", "5", "6", "7", "8", "9"}

WhiteSpace == {" ", "\t", "\n", "\r"}

LowerOf ==
    ("A" :> "a") @@ ("B" :> "b") @@ ("C" :> "c") @@ ("D" :> "d") @@ ("E" :> "e") @@
    ("F" :> "f") @@ ("G" :> "g") @@ ("H" :> "h") @@ ("I" :> "i") @@ ("J" :> "j") @@
    ("K" :> "k") @@ ("L" :> "l") @@ ("M" :> "m") @@ ("N" :> "n") @@ ("O" :> "o") @@
    ("P" :> "p") @@ ("Q" :> "q") @@ ("R" :> "r") @@ ("S" :> "s") @@ ("T" :> "t") @@
    ("U" :> "u") @@ ("V" :> "v") @@ ("W" :> "w") @@ ("X" :> "x") @@ ("Y" :> "y") @@
    ("Z" :> "z")

\* String.prototype.toLowerCase
toLowerCase(s) == [i \in 1..Len(s) |-> IF s[i] \in UpperCase THEN LowerOf[s[i]] ELSE s[i]]

\* String.prototype.includes
includes(s, sub) ==
    \E i \in 1..(Len(s) - Len(sub) + 1) : SubSeq(s, i, i + Len(sub) - 1) = sub

\* String.prototype.startsWith
startsWith(s, prefix) ==
    /\ Len(s) >= Len(prefix)
    /\ SubSeq(s, 1, Len(prefix)) = prefix

\* String.prototype.substring(n)
substring(s, n) == SubSeq(s, n + 1, Len(s))

\* s.replace(/\s/g, '')
stripWhiteSpace(s) == SelectSeq(s, LAMBDA c : c \notin WhiteSpace)

\* length of the longest prefix of s made of characters of set cs
RECURSIVE PrefixRun(_, _)
PrefixRun(s, cs) ==
    IF s # <<>> /\ Head(s) \in cs THEN 1 + PrefixRun(Tail(s), cs) ELSE 0

----------------------------------------------------------------------------
(* Static reference tables (constants.TYPES, constants.BUILDINGS). *)

typeData ==
    [keynote |-> "Keynotes", maintrack |-> "Main tracks", devroom |-> "Developer rooms",
     lightningtalk |-> "Lightning talks", other |-> "Other"]

buildingData == {"J", "H", "AW", "U", "K"}

\* Property names every plain JavaScript object inherits from Object.prototype:
\* the `in` operator and a property read find them on typeData and on
\* result.types although they are not keys of either.
ObjectPrototype ==
    {"constructor", "toString", "toLocaleString", "valueOf", "hasOwnProperty",
     "isPrototypeOf", "propertyIsEnumerable", "__proto__"}

----------------------------------------------------------------------------
(* Memoized helpers: each keeps a module-level cache that outlives the call    *)
(* and the run. A step reads the cache as it stood when the step began; the   *)
(* step's action enters the arguments it looked up.                           *)

\* a cache that answers a lookup with any value it holds
memoizeAnyEntry(cache, arg, computed) ==
    IF DOMAIN cache # {} THEN cache[CHOOSE k \in DOMAIN cache : TRUE] ELSE computed

\* memoize: cache.get(arg) ?? fn(arg); computed is fn(arg), never null here
memoize(cache, arg, computed) ==
    IF arg \in DOMAIN cache THEN cache[arg] ELSE computed

\* memoize: cache.set(arg, value)
cacheSet(cache, arg, value) ==
    [k \in DOMAIN cache \cup {arg} |-> IF k = arg THEN value ELSE cache[k]]

\* the function getRoomName memoizes: a raw name starting with "D." gets the
\* suffix " (online)"
roomNameOf(name) ==
    IF startsWith(name, <<"D", ".">>)
    THEN name \o <<" ", "(", "o", "n", "l", "i", "n", "e", ")">>
    ELSE name

\* getRoomName
getRoomName(name) == memoize(roomNameCache, name, roomNameOf(name))

\* getStatus looking for the British spelling "cancelled"
getStatusCancelled(title) ==
    memoize(statusCache, title,
            LET lowerTitle == toLowerCase(title) IN
            IF includes(lowerTitle, <<"c", "a", "n", "c", "e", "l", "l", "e", "d">>)
            THEN "canceled"
            ELSE IF includes(lowerTitle, <<"a", "m", "e", "n", "d", "m", "e", "n", "t">>)
            THEN "amendment"
            ELSE "running")

\* the function getStatus memoizes
statusOf(title) ==
    LET lowerTitle == toLowerCase(title) IN
    IF includes(lowerTitle, <<"c", "a", "n", "c", "e", "l", "e", "d">>) THEN "canceled"
    ELSE IF includes(lowerTitle, <<"a", "m", "e", "n", "d", "m", "e", "n", "t">>) THEN "amendment"
    ELSE "running"

\* getStatus
getStatus(title) == memoize(statusCache, title, statusOf(title))

----------------------------------------------------------------------------
(* EventProcessor *)

\* what processEvent returns for an excluded event
NULL == [excluded |-> TRUE]

\* `type in typeData`: own keys and inherited property names alike
inTypeData(type) == type \in DOMAIN typeData \/ type \in ObjectPrototype

\* EventProcessor.getType
getType(event) ==
    LET type == event.type IN
    IF type = "lightning" THEN "lightningtalk"
    ELSE IF type = "lecture" THEN "keynote"
    ELSE IF inTypeData(type) THEN type ELSE "other"

\* constants.STREAM_LINK with ${ROOM_ID} replaced by roomId
StreamLink(roomId) ==
    <<"h", "t", "t", "p", "s", ":", "/", "/", "s", "t", "r", "e", "a", "m", ".",
      "f", "o", "s", "d", "e", "m", ".", "o", "r", "g", "/">>
    \o roomId \o <<".", "m", "3", "u", "8">>

\* constants.CHAT_LINK with ${ROOM_ID} replaced by roomId
ChatLink(roomId) ==
    <<"h", "t", "t", "p", "s", ":", "/", "/", "c", "h", "a", "t", ".", "f", "o", "s",
      "d", "e", "m", ".", "o", "r", "g", "/", "#", "/", "r", "o", "o", "m", "/", "#">>
    \o roomId \o <<":", "f", "o", "s", "d", "e", "m", ".", "o", "r", "g">>

\* buildStreamInfo that knows only the prefixes "B." and "I."
buildStreamInfoNoS(roomName) ==
    LET isLiveRoom ==
            ~ \E prefix \in {<<"B", ".">>, <<"I", ".">>} : startsWith(roomName, prefix)
        normalizedRoom == SelectSeq(toLowerCase(roomName), LAMBDA c : c # ".")
    IN  IF ~isLiveRoom THEN <<>>
        ELSE << [href  |-> StreamLink(normalizedRoom),
                 title |-> "Stream",
                 type  |-> "application/vnd.apple.mpegurl"] >>

\* EventProcessor.buildStreamInfo
buildStreamInfo(roomName) ==
    LET isLiveRoom ==
            ~ \E prefix \in {<<"B", ".">>, <<"I", ".">>, <<"S", ".">>} :
                  startsWith(roomName, prefix)
        normalizedRoom == SelectSeq(toLowerCase(roomName), LAMBDA c : c # ".")
    IN  IF ~isLiveRoom THEN <<>>
        ELSE << [href  |-> StreamLink(normalizedRoom),
                 title |-> "Stream",
                 type  |-> "application/vnd.apple.mpegurl"] >>

\* EventProcessor.buildChatInfo: /^[A-Z]\./ picks the rooms with a chat; the
\* empty text stands for null (a chat link is never empty)
buildChatInfo(roomName) ==
    IF Len(roomName) >= 2 /\ roomName[1] \in UpperCase /\ roomName[2] = "."
    THEN ChatLink(substring(roomName, 2))
    ELSE <<>>

\* getTitle without the fallback to the original title
getTitleNoFallback(title, status) ==
    IF status = "amendment" THEN substring(title, 10) ELSE title

\* EventProcessor.getTitle: title?.substring(10) || title
getTitle(title, status) ==
    IF status = "amendment"
    THEN (IF substring(title, 10) # <<>> THEN substring(title, 10) ELSE title)
    ELSE title

\* processEvent without the exclusion of "stand" placeholders
processEventKeepStand(event, isLive, roomName, day) ==
    IF event.title = <<>> THEN NULL
    ELSE
      LET title  == event.title
          status == getStatus(toLowerCase(title))
      IN
      IF status = "canceled" THEN NULL
      ELSE IF event.type = "" \/ event.track = <<>> THEN NULL
      ELSE [day      |-> day,
            isLive   |-> isLive,
            status   |-> status,
            type     |-> getType(event),
            track    |-> event.track,
            trackKey |-> stripWhiteSpace(toLowerCase(event.track)),
            title    |-> getTitle(title, status),
            streams  |-> buildStreamInfo(roomName),
            chat     |-> buildChatInfo(roomName),
            room     |-> roomName,
            id       |-> event.id]

\* EventProcessor.processEvent
processEvent(event, isLive, roomName, day) ==
    IF event.title = <<>> THEN NULL
    ELSE
      LET title  == event.title
          status == getStatus(toLowerCase(title))
      IN
      IF status = "canceled" THEN NULL
      ELSE IF event.type = "" \/ event.track = <<>> THEN NULL
      ELSE
        LET type     == getType(event)
            track    == event.track
            trackKey == stripWhiteSpace(toLowerCase(track))
        IN
        IF type = "other" /\ track = <<"s", "t", "a", "n", "d">> THEN NULL
        ELSE [day      |-> day,
              isLive   |-> isLive,
              status   |-> status,
              type     |-> type,
              track    |-> track,
              trackKey |-> trackKey,
              title    |-> getTitle(title, status),
              streams  |-> buildStreamInfo(roomName),
              chat     |-> buildChatInfo(roomName),
              room     |-> roomName,
              id       |-> event.id]

----------------------------------------------------------------------------
(* Room naming conventions used by processScheduleData. *)

\* roomName.match(/^(AW|[A-Z])/): the building id, "" when there is no match
buildingIdOf(roomName) ==
    IF startsWith(roomName, <<"A", "W">>) THEN "AW"
    ELSE IF roomName # <<>> /\ roomName[1] \in UpperCase THEN roomName[1]
    ELSE ""

\* roomName.match(/^[A-Z]+\.?([0-9]+)/): the digit run after the leading capitals
\* and an optional dot; the empty text stands for null (a match has >= 1 digit)
floorOf(roomName) ==
    LET caps   == PrefixRun(roomName, UpperCase)
        rest   == substring(roomName, caps)
        digits == IF rest # <<>> /\ Head(rest) = "." THEN Tail(rest) ELSE rest
    IN  IF caps = 0 THEN <<>> ELSE SubSeq(digits, 1, PrefixRun(digits, Digits))

----------------------------------------------------------------------------
(* Inputs: the raw rooms and raw events a schedule document is made of. *)

RawRooms ==
    { [name |-> <<"J", ".", "1", ".", "2">>, slug |-> "j12"],
      [name |-> <<"J", ".", "1", ".", "2">>, slug |-> "j12-bis"],
      [name |-> <<"A", "W", "1", ".", "1", "2", "0">>, slug |-> "aw1120"],
      [name |-> <<"D", ".", "w", "e", "b">>, slug |-> "dweb"] }

Welcome == <<"W", "e", "l", "c", "o", "m", "e">>

Talk == <<"T", "a", "l", "k">>

TalkCanceled == <<"T", "a", "l", "k", " ", "C", "a", "n", "c", "e", "l", "e", "d">>

GoPerformance == <<"G", "o", " ", " ", "P", "e", "r", "f", "o", "r", "m", "a", "n", "c", "e">>

goperformance == <<"g", "o", " ", "p", "e", "r", "f", "o", "r", "m", "a", "n", "c", "e">>

Rust == <<"R", "u", "s", "t">>

stand == <<"s", "t", "a", "n", "d">>

RawEvents ==
    { [id |-> "1", title |-> Welcome,      type |-> "lecture",     track |-> GoPerformance],
      [id |-> "1", title |-> Talk,         type |-> "devroom",     track |-> goperformance],
      [id |-> "2", title |-> Talk,         type |-> "workshop",    track |-> Rust],
      [id |-> "2", title |-> TalkCanceled, type |-> "devroom",     track |-> Rust],
      [id |-> "3", title |-> Talk,         type |-> "constructor", track |-> Rust] }

DayIndices == {1, 2}

CANCELED == <<"C", "A", "N", "C", "E", "L", "E", "D">>

Stand == <<"S", "t", "a", "n", "d">>

AmendmentTalk == <<"A", "m", "e", "n", "d", "m", "e", "n", "t", " ", "T", "a", "l", "k">>

AMENDMENT == <<"A", "M", "E", "N", "D", "M", "E", "N", "T">>

amendment10 == <<"a", "m", "e", "n", "d", "m", "e", "n", "t", "!">>

ChangedTalk == <<"[", "C", "H", "A", "N", "G", "E", "D", "]", " ", "T", "a", "l", "k">>

CanceledAmendment ==
    <<"C", "a", "n", "c", "e", "l", "e", "d", " ", "a", "m", "e", "n", "d", "m", "e", "n", "t">>

\* the raw rooms one event iteration is checked in
ClassifierRooms ==
    RawRooms \cup
    { [name |-> <<"B", ".", "x">>, slug |-> "bx"],
      [name |-> <<"I", ".", "1">>, slug |-> "i1"],
      [name |-> <<"S", ".", "a">>, slug |-> "sa"],
      [name |-> <<"k", ".", "1">>, slug |-> "k1"] }

\* the raw events one event iteration is checked over
ClassifierEvents ==
    [id    : {"1"},
     title : {<<>>, Welcome, Talk, TalkCanceled, CANCELED, AmendmentTalk, AMENDMENT,
              amendment10, ChangedTalk, CanceledAmendment},
     type  : {"", "lecture", "lightning", "devroom", "keynote", "other", "workshop",
              "constructor"},
     track : {<<>>, stand, Stand, Rust, GoPerformance}]

----------------------------------------------------------------------------
(* processScheduleData: the tables and the steps of the aggregation. *)

\* table[key] = value, creating the key when it is new
Put(table, key, value) ==
    [k \in DOMAIN table \cup {key} |-> IF k = key THEN value ELSE table[k]]

\* the seeded result.types
InitTypes ==
    [type \in DOMAIN typeData |->
        [id |-> type, name |-> typeData[type], trackCount |-> 0, eventCount |-> 0,
         roomCount |-> 0, buildingCount |-> 0, rooms |-> {}, buildings |-> {}]]

\* the seeded result.buildings
InitBuildings ==
    [building \in buildingData |->
        [name |-> building, roomCount |-> 0, trackCount |-> 0, eventCount |-> 0]]

\* the DayInfo created at the start of a day iteration
NewDayInfo(dayIndex) ==
    [id |-> dayIndex, eventCount |-> 0, trackCount |-> 0, roomCount |-> 0,
     buildingCount |-> 0, rooms |-> {}, buildings |-> {}, tracks |-> {}]

\* no day iteration is running
NoDay == [id |-> 0]

\* no room iteration has started yet
NoRoom == [name |-> <<>>, slug |-> ""]

\* no event iteration has run yet
NoEvent == [id |-> "", title |-> <<>>, type |-> "", track |-> <<>>]

\* SightRoom writing the record at every sighting
SightRoomOverwrite(rms, rawRoom) ==
    LET roomName == getRoomName(rawRoom.name) IN
    Put(rms, roomName,
        [name       |-> roomName,
         slug       |-> rawRoom.slug,
         buildingId |-> buildingIdOf(roomName),
         building   |-> buildingIdOf(roomName) \in buildingData,
         floor      |-> floorOf(roomName),
         eventCount |-> IF roomName \in DOMAIN rms THEN rms[roomName].eventCount ELSE 0])

\* if (!result.rooms[roomName]) result.rooms[roomName] = {...}
SightRoom(rms, rawRoom) ==
    LET roomName == getRoomName(rawRoom.name) IN
    IF roomName \in DOMAIN rms THEN rms
    ELSE Put(rms, roomName,
             [name       |-> roomName,
              slug       |-> rawRoom.slug,
              buildingId |-> buildingIdOf(roomName),
              building   |-> buildingIdOf(roomName) \in buildingData,
              floor      |-> floorOf(roomName),
              eventCount |-> 0])

\* PutEvent keeping the entry an id already has
PutEventKeepFirst(evs, event) ==
    IF event.id \in DOMAIN evs THEN evs ELSE Put(evs, event.id, event)

\* result.events[event.id] = event
PutEvent(evs, event) == Put(evs, event.id, event)

\* result.rooms[roomName].eventCount++
CountRoomEvent(rms, roomName) ==
    [rms EXCEPT ![roomName].eventCount = @ + 1]

\* UpsertTrack rewriting name, type and room at every event of the track
UpsertTrackOverwrite(trs, event, roomName, dayIndex) ==
    LET key == event.trackKey
        old == IF key \in DOMAIN trs THEN trs[key] ELSE [day |-> <<>>, eventCount |-> 0]
        day == IF \E i \in 1..Len(old.day) : old.day[i] = dayIndex
               THEN old.day ELSE Append(old.day, dayIndex)
    IN  Put(trs, key, [id |-> key, name |-> event.track, type |-> event.type,
                       room |-> roomName, day |-> day,
                       eventCount |-> old.eventCount + 1])

\* UpsertTrack pushing the day index without looking for it in the list
UpsertTrackPushAlways(trs, event, roomName, dayIndex) ==
    LET key == event.trackKey
        seen ==
            IF key \notin DOMAIN trs
            THEN Put(trs, key, [id |-> key, name |-> event.track, type |-> event.type,
                                room |-> roomName, day |-> <<dayIndex>>, eventCount |-> 0])
            ELSE [trs EXCEPT ![key].day = Append(@, dayIndex)]
    IN  [seen EXCEPT ![key].eventCount = @ + 1]

\* the track upsert and its eventCount++
UpsertTrack(trs, event, roomName, dayIndex) ==
    LET key == event.trackKey
        seen ==
            IF key \notin DOMAIN trs
            THEN Put(trs, key, [id |-> key, name |-> event.track, type |-> event.type,
                                room |-> roomName, day |-> <<dayIndex>>, eventCount |-> 0])
            ELSE IF \E i \in 1..Len(trs[key].day) : trs[key].day[i] = dayIndex
                 THEN trs
                 ELSE [trs EXCEPT ![key].day = Append(@, dayIndex)]
    IN  [seen EXCEPT ![key].eventCount = @ + 1]

\* result.types[event.type] is truthy although event.type is no key of the table:
\* the read finds a member of Object.prototype, which has no `rooms` set, so
\* `.rooms.add(roomName)` throws a TypeError and the run rejects
TypeLookupThrows(tps, event) ==
    event.type \notin DOMAIN tps /\ event.type \in ObjectPrototype

\* if (result.types[event.type]) { eventCount++; rooms.add; buildings.add }
UpdateType(tps, event, roomName, buildingId) ==
    IF event.type \in DOMAIN tps
    THEN [tps EXCEPT ![event.type].eventCount = @ + 1,
                     ![event.type].rooms = @ \cup {roomName},
                     ![event.type].buildings = @ \cup {buildingId}]
    ELSE tps

\* dayInfo.eventCount++
CountDayEvent(info) == [info EXCEPT !.eventCount = @ + 1]

\* dayInfo.rooms.add; dayInfo.buildings.add; dayInfo.tracks.add
UpdateDay(info, event, roomName, buildingId) ==
    [info EXCEPT !.rooms = @ \cup {roomName},
                 !.buildings = @ \cup {buildingId},
                 !.tracks = @ \cup {event.trackKey}]

\* UpdateBuilding without its guard: an unknown building id gets a record
UpdateBuildingUnguarded(blds, buildingId, roomEventCount) ==
    LET old == IF buildingId \in DOMAIN blds THEN blds[buildingId]
               ELSE [name |-> buildingId, roomCount |-> 0, trackCount |-> 0,
                     eventCount |-> 0]
    IN  Put(blds, buildingId,
            [old EXCEPT !.roomCount = @ + 1, !.eventCount = @ + roomEventCount])

\* the building update that ends every room iteration
UpdateBuilding(blds, buildingId, roomEventCount) ==
    IF buildingId \in DOMAIN blds
    THEN [blds EXCEPT ![buildingId].roomCount = @ + 1,
                      ![buildingId].eventCount = @ + roomEventCount]
    ELSE blds

\* the day's counts from its scratch sets
FinalizeDay(info) ==
    [info EXCEPT !.roomCount = Cardinality(info.rooms),
                 !.buildingCount = Cardinality(info.buildings),
                 !.trackCount = Cardinality(info.tracks)]

\* RecountTypes leaving trackCount as it was
RecountTypesNoTracks(tps, trs) ==
    [t \in DOMAIN tps |->
        [tps[t] EXCEPT
            !.roomCount = Cardinality(tps[t].rooms),
            !.buildingCount = Cardinality(tps[t].buildings)]]

\* the recount of every session type that ends every day iteration
RecountTypes(tps, trs) ==
    [t \in DOMAIN tps |->
        [tps[t] EXCEPT
            !.roomCount = Cardinality(tps[t].rooms),
            !.buildingCount = Cardinality(tps[t].buildings),
            !.trackCount =
                IF DOMAIN trs # {}
                THEN Cardinality({k \in DOMAIN trs : trs[k].type = tps[t].id})
                ELSE @]]

\* delete type.rooms; delete type.buildings
StripType(type) ==
    [id |-> type.id, name |-> type.name, trackCount |-> type.trackCount,
     eventCount |-> type.eventCount, roomCount |-> type.roomCount,
     buildingCount |-> type.buildingCount]

\* delete day.rooms; delete day.buildings; delete day.tracks
StripDay(day) ==
    [id |-> day.id, eventCount |-> day.eventCount, trackCount |-> day.trackCount,
     roomCount |-> day.roomCount, buildingCount |-> day.buildingCount]

----------------------------------------------------------------------------
(* buildData and the handlers: the runs of a process. *)

\* the exported handlers, each starting a run
Handlers == {"fetch", "scheduled"}

\* a year test that accepts any run of digits
validYearAnyLength(year) ==
    /\ year # <<>>
    /\ \A i \in 1..Len(year) : year[i] \in Digits

\* /^\d{4}$/.test(year), after the !year test
validYear(year) ==
    /\ year # <<>>
    /\ Len(year) = 4
    /\ \A i \in 1..Len(year) : year[i] \in Digits

\* the year keys a run is started with: the handlers' own and malformed ones
Years ==
    { <<"2", "0", "2", "6">>, <<"2", "0", "2">>, <<"2", "0", "2", "6", "0">>,
      <<"2", "o", "2", "6">>, <<>> }

\* no aggregation has produced a result
NoResult == [none |-> TRUE]

\* the aggregation threw
Thrown == [error |-> "TypeError"]

\* a handler that has started no run
NoRun ==
    [pc |-> "idle", year |-> <<>>, response |-> "none", doc |-> "none",
     conference |-> NoResult, result |-> NoResult]

\* flattenConference: the fields of the conference record the tables depend on
flattenConference(conference) ==
    [start |-> conference.start,
     end   |-> conference.end,
     days  |-> SelectSeq(<<conference.start, conference.end>>, LAMBDA d : d # "")]

DayElement(index, date) == [kind |-> "day", index |-> index, date |-> date]

RoomElement(name, slug) == [kind |-> "room", room |-> [name |-> name, slug |-> slug]]

EventElement(id, title, type, track) ==
    [kind |-> "event", event |-> [id |-> id, title |-> title, type |-> type, track |-> track]]

\* the schedule documents a retrieval may deliver: the conference element and
\* the day, room and event elements in document order
Documents ==
    [ oneDay |->
        [conference |-> [start |-> "2026-01-31", end |-> "2026-01-31"],
         elements |->
            << DayElement(1, "2026-01-31"),
               RoomElement(<<"D", ".", "w", "e", "b">>, "dweb"),
               EventElement("1", Welcome, "lecture", GoPerformance),
               EventElement("2", Talk, "workshop", Rust) >>],
      twoDays |->
        [conference |-> [start |-> "2026-01-31", end |-> "2026-02-01"],
         elements |->
            << DayElement(1, "2026-01-31"),
               RoomElement(<<"J", ".", "1", ".", "2">>, "j12"),
               EventElement("1", Talk, "devroom", goperformance),
               DayElement(2, "2026-02-01"),
               RoomElement(<<"J", ".", "1", ".", "2">>, "j12-bis"),
               EventElement("2", TalkCanceled, "devroom", Rust) >>],
      badType |->
        [conference |-> [start |-> "2026-01-31", end |-> ""],
         elements |->
            << DayElement(2, "2026-01-31"),
               RoomElement(<<"A", "W", "1", ".", "1", "2", "0">>, "aw1120"),
               EventElement("3", Talk, "constructor", Rust) >>] ]

----------------------------------------------------------------------------
(* The state machine: one step per loop iteration of processScheduleData,   *)
(* the document being read as the loops consume it.                         *)

Init ==
    /\ pc = "days"
    /\ types = InitTypes
    /\ buildings = InitBuildings
    /\ days = <<>>
    /\ rooms = <<>>
    /\ tracks = <<>>
    /\ events = <<>>
    /\ dayInfo = NoDay
    /\ room = NoRoom
    /\ xmlEvent = NoEvent
    /\ accepted = <<>>
    /\ nDays = 0
    /\ nRooms = 0
    /\ nEvents = 0
    /\ roomNameCache = <<>>
    /\ statusCache = <<>>
    /\ runs = [h \in Handlers |-> NoRun]
    /\ owner = "none"
    /\ store = <<>>
    /\ solo = "none"
    /\ reference = <<>>

\* for (const day of data.day): a day iteration begins
StartDay(dayIndex) ==
    /\ pc = "days"
    /\ nDays < MaxDays
    /\ pc' = "rooms"
    /\ dayInfo' = NewDayInfo(dayIndex)
    /\ nDays' = nDays + 1
    /\ UNCHANGED <<types, buildings, days, rooms, tracks, events, room, xmlEvent,
                   accepted, nRooms, nEvents, roomNameCache, statusCache>>
    /\ UNCHANGED procVars

\* for (const room of day.room): a room iteration begins; room.event always
\* yields at least one event iteration
StartRoom(rawRoom) ==
    /\ pc = "rooms"
    /\ nRooms < MaxRooms
    /\ nEvents < MaxEvents
    /\ pc' = "events"
    /\ room' = rawRoom
    /\ rooms' = SightRoom(rooms, rawRoom)
    /\ xmlEvent' = NoEvent
    /\ nRooms' = nRooms + 1
    /\ roomNameCache' = cacheSet(roomNameCache, rawRoom.name, getRoomName(rawRoom.name))
    /\ UNCHANGED <<types, buildings, days, tracks, events, dayInfo, accepted,
                   nDays, nEvents, statusCache>>
    /\ UNCHANGED procVars

\* for (const xmlEvent of events): one event iteration
ProcessEvent(raw) ==
    /\ pc = "events"
    /\ nEvents < MaxEvents
    /\ xmlEvent' = raw
    /\ nEvents' = nEvents + 1
    /\ LET roomName   == getRoomName(room.name)
           buildingId == buildingIdOf(roomName)
           dayIndex   == dayInfo.id
           event      == processEvent(raw, dayIndex = 1, roomName, dayIndex)
       IN  IF event = NULL
           THEN UNCHANGED <<pc, types, rooms, tracks, events, dayInfo, accepted>>
           ELSE /\ events' = PutEvent(events, event)
                /\ rooms' = CountRoomEvent(rooms, roomName)
                /\ tracks' = UpsertTrack(tracks, event, roomName, dayIndex)
                /\ accepted' = Append(accepted, event)
                /\ IF TypeLookupThrows(types, event)
                   THEN /\ pc' = "failed"
                        /\ dayInfo' = CountDayEvent(dayInfo)
                        /\ UNCHANGED types
                   ELSE /\ pc' = pc
                        /\ types' = UpdateType(types, event, roomName, buildingId)
                        /\ dayInfo' = UpdateDay(CountDayEvent(dayInfo), event,
                                                roomName, buildingId)
    /\ statusCache' =
          IF raw.title = <<>> THEN statusCache
          ELSE cacheSet(statusCache, toLowerCase(raw.title),
                        getStatus(toLowerCase(raw.title)))
    /\ UNCHANGED <<buildings, days, room, nDays, nRooms, roomNameCache>>
    /\ UNCHANGED procVars

\* the room's events are exhausted: the building update ends the room iteration
EndRoom ==
    /\ pc = "events"
    /\ xmlEvent # NoEvent
    /\ pc' = "rooms"
    /\ LET roomName == getRoomName(room.name) IN
       buildings' = UpdateBuilding(buildings, buildingIdOf(roomName),
                                   rooms[roomName].eventCount)
    /\ UNCHANGED <<types, days, rooms, tracks, events, dayInfo, room, xmlEvent,
                   accepted, nDays, nRooms, nEvents, roomNameCache, statusCache>>
    /\ UNCHANGED procVars

\* the day's rooms are exhausted: final day stats, then the type recount
EndDay ==
    /\ pc = "rooms"
    /\ pc' = "days"
    /\ days' = Put(days, dayInfo.id, FinalizeDay(dayInfo))
    /\ types' = RecountTypes(types, tracks)
    /\ dayInfo' = NoDay
    /\ UNCHANGED <<buildings, rooms, tracks, events, room, xmlEvent, accepted,
                   nDays, nRooms, nEvents, roomNameCache, statusCache>>
    /\ UNCHANGED procVars

\* the days are exhausted: scratch sets are deleted and the result returned
Finish ==
    /\ pc = "days"
    /\ pc' = "done"
    /\ types' = [t \in DOMAIN types |-> StripType(types[t])]
    /\ days' = [d \in DOMAIN days |-> StripDay(days[d])]
    /\ UNCHANGED <<buildings, rooms, tracks, events, dayInfo, room, xmlEvent,
                   accepted, nDays, nRooms, nEvents, roomNameCache, statusCache>>
    /\ UNCHANGED procVars

Next ==
    \/ \E dayIndex \in DayIndices : StartDay(dayIndex)
    \/ \E rawRoom \in RawRooms : StartRoom(rawRoom)
    \/ \E raw \in RawEvents : ProcessEvent(raw)
    \/ EndRoom
    \/ EndDay
    \/ Finish

Spec == Init /\ [][Next]_vars

(* One event iteration, over every raw event of ClassifierEvents, in the       *)
(* first room iteration of a run.                                             *)

InitClassify ==
    \E dayIndex \in DayIndices, rawRoom \in ClassifierRooms :
        /\ roomNameCache = cacheSet(<<>>, rawRoom.name, roomNameOf(rawRoom.name))
        /\ statusCache = <<>>
        /\ pc = "events"
        /\ types = InitTypes
        /\ buildings = InitBuildings
        /\ days = <<>>
        /\ rooms = SightRoom(<<>>, rawRoom)
        /\ tracks = <<>>
        /\ events = <<>>
        /\ dayInfo = NewDayInfo(dayIndex)
        /\ room = rawRoom
        /\ xmlEvent = NoEvent
        /\ accepted = <<>>
        /\ nDays = 1
        /\ nRooms = 1
        /\ nEvents = 0
        /\ runs = [h \in Handlers |-> NoRun]
        /\ owner = "none"
        /\ store = <<>>
        /\ solo = "none"
        /\ reference = <<>>

Classify(raw) == nEvents = 0 /\ ProcessEvent(raw)

NextClassify == \E raw \in ClassifierEvents : Classify(raw)

SpecClassify == InitClassify /\ [][NextClassify]_vars

(* The runs of one process. A run is suspended at its awaits (the retrieval,   *)
(* the reading of the text, the parse, the store write); a continuation is    *)
(* resumed only when no call is on the stack. processScheduleData contains    *)
(* no await, so from its first step to its last its call stays on the stack:  *)
(* the table variables are the locals of that one call.                       *)

InFlight == {"fetch", "text", "parse", "parsed", "aggregate", "put"}

\* the next element of the document under aggregation
NextElement ==
    LET elements == Documents[runs[owner].doc].elements
        consumed == nDays + nRooms + nEvents
    IN  IF consumed < Len(elements) THEN elements[consumed + 1] ELSE [kind |-> "end"]

InitRuns ==
    /\ pc = "idle"
    /\ types = InitTypes
    /\ buildings = InitBuildings
    /\ days = <<>>
    /\ rooms = <<>>
    /\ tracks = <<>>
    /\ events = <<>>
    /\ dayInfo = NoDay
    /\ room = NoRoom
    /\ xmlEvent = NoEvent
    /\ accepted = <<>>
    /\ nDays = 0
    /\ nRooms = 0
    /\ nEvents = 0
    /\ roomNameCache = <<>>
    /\ statusCache = <<>>
    /\ runs = [h \in Handlers |-> NoRun]
    /\ owner = "none"
    /\ store = <<>>
    /\ solo = "none"
    /\ reference = <<>>

aggVars == <<pc, types, buildings, days, rooms, tracks, events, dayInfo, room,
             xmlEvent, accepted, nDays, nRooms, nEvents>>

\* a handler calls run, run calls buildData: the year test, then fetch(url)
Invoke(h, year) ==
    /\ owner = "none"
    /\ runs[h].pc \notin InFlight
    /\ IF validYear(year)
       THEN /\ runs' = [runs EXCEPT ![h] = [NoRun EXCEPT !.pc = "fetch", !.year = year]]
            /\ solo' = IF /\ \A o \in Handlers \ {h} : runs[o].pc \notin InFlight
                          /\ roomNameCache = <<>>
                          /\ statusCache = <<>>
                       THEN h ELSE "none"
       ELSE /\ runs' = [runs EXCEPT ![h] = [NoRun EXCEPT !.pc = "rejected", !.year = year]]
            /\ solo' = solo
    /\ UNCHANGED <<aggVars, roomNameCache, statusCache, owner, store, reference>>

\* await fetch(url) is over: the fetch failed, or a response came, ok or not
Respond(h, kind) ==
    /\ owner = "none"
    /\ runs[h].pc = "fetch"
    /\ runs' = [runs EXCEPT ![h].response = kind,
                            ![h].pc = IF kind = "ok" THEN "text" ELSE "rejected"]
    /\ UNCHANGED <<aggVars, roomNameCache, statusCache, owner, store, solo, reference>>

\* await response.text() is over; parseData begins and awaits xml2json
ReadText(h, d) ==
    /\ owner = "none"
    /\ runs[h].pc = "text"
    /\ runs' = [runs EXCEPT ![h].doc = d, ![h].pc = "parse"]
    /\ UNCHANGED <<aggVars, roomNameCache, statusCache, owner, store, solo, reference>>

\* await xml2json is over: parseData flattens the document and returns
Parsed(h) ==
    /\ owner = "none"
    /\ runs[h].pc = "parse"
    /\ runs' = [runs EXCEPT
                  ![h].conference = flattenConference(Documents[runs[h].doc].conference),
                  ![h].pc = "parsed"]
    /\ UNCHANGED <<aggVars, roomNameCache, statusCache, owner, store, solo, reference>>

\* processScheduleData entered with the rooms table of an earlier call
BeginAggregationShared(h) ==
    /\ owner = "none"
    /\ runs[h].pc = "parsed"
    /\ runs' = [runs EXCEPT ![h].pc = "aggregate"]
    /\ owner' = h
    /\ pc' = "days"
    /\ types' = InitTypes
    /\ buildings' = InitBuildings
    /\ days' = <<>>
    /\ tracks' = <<>>
    /\ events' = <<>>
    /\ dayInfo' = NoDay
    /\ room' = NoRoom
    /\ xmlEvent' = NoEvent
    /\ accepted' = <<>>
    /\ nDays' = 0
    /\ nRooms' = 0
    /\ nEvents' = 0
    /\ UNCHANGED rooms
    /\ UNCHANGED <<roomNameCache, statusCache, store, solo, reference>>

\* await parseData is over: processScheduleData is entered and builds its
\* result object and the static types and buildings
BeginAggregation(h) ==
    /\ owner = "none"
    /\ runs[h].pc = "parsed"
    /\ runs' = [runs EXCEPT ![h].pc = "aggregate"]
    /\ owner' = h
    /\ pc' = "days"
    /\ types' = InitTypes
    /\ buildings' = InitBuildings
    /\ days' = <<>>
    /\ rooms' = <<>>
    /\ tracks' = <<>>
    /\ events' = <<>>
    /\ dayInfo' = NoDay
    /\ room' = NoRoom
    /\ xmlEvent' = NoEvent
    /\ accepted' = <<>>
    /\ nDays' = 0
    /\ nRooms' = 0
    /\ nEvents' = 0
    /\ UNCHANGED <<roomNameCache, statusCache, store, solo, reference>>

\* the loops of the call on the stack, fed with the run's document
AggregateDay ==
    /\ owner # "none"
    /\ NextElement.kind = "day"
    /\ StartDay(NextElement.index)

AggregateRoom ==
    /\ owner # "none"
    /\ NextElement.kind = "room"
    /\ StartRoom(NextElement.room)

AggregateEvent ==
    /\ owner # "none"
    /\ NextElement.kind = "event"
    /\ ProcessEvent(NextElement.event)

AggregateEndRoom ==
    /\ owner # "none"
    /\ NextElement.kind # "event"
    /\ EndRoom

AggregateEndDay ==
    /\ owner # "none"
    /\ NextElement.kind # "room"
    /\ EndDay

AggregateFinish ==
    /\ owner # "none"
    /\ NextElement.kind = "end"
    /\ Finish

\* what the call on the stack hands back
Outcome ==
    IF pc = "done"
    THEN [conference |-> runs[owner].conference,
          types      |-> types,
          buildings  |-> buildings,
          days       |-> days,
          rooms      |-> rooms,
          tracks     |-> tracks,
          events     |-> events]
    ELSE Thrown

\* processScheduleData returns or throws; buildData hands the result to run,
\* which calls env.R2.put, or logs the error and throws it again
Completed(h) ==
    /\ owner = h
    /\ pc \in {"done", "failed"}
    /\ runs' = [runs EXCEPT ![h].result = Outcome,
                            ![h].pc = IF pc = "done" THEN "put" ELSE "rejected"]
    /\ owner' = "none"
    /\ pc' = "idle"
    /\ reference' = IF solo = h THEN cacheSet(reference, runs[h].doc, Outcome)
                    ELSE reference
    /\ solo' = IF solo = h THEN "none" ELSE solo
    /\ UNCHANGED <<types, buildings, days, rooms, tracks, events, dayInfo, room,
                   xmlEvent, accepted, nDays, nRooms, nEvents>>
    /\ UNCHANGED <<roomNameCache, statusCache, store>>

\* await env.R2.put is over: the object is written and run returns the data,
\* or the write failed
Stored(h, ok) ==
    /\ owner = "none"
    /\ runs[h].pc = "put"
    /\ runs' = [runs EXCEPT ![h].pc = IF ok THEN "returned" ELSE "rejected"]
    /\ store' = IF ok THEN cacheSet(store, runs[h].year, runs[h].result) ELSE store
    /\ UNCHANGED <<aggVars, roomNameCache, statusCache, owner, solo, reference>>

\* the module is loaded anew in a fresh process: const cache = new Map()
LoadModule ==
    /\ \A h \in Handlers : runs[h].pc \notin InFlight
    /\ roomNameCache # <<>> \/ statusCache # <<>>
    /\ roomNameCache' = <<>>
    /\ statusCache' = <<>>
    /\ UNCHANGED <<aggVars, runs, owner, store, solo, reference>>

NextRuns ==
    \/ \E h \in Handlers, year \in Years : Invoke(h, year)
    \/ \E h \in Handlers, kind \in {"ok", "notOk", "failed"} : Respond(h, kind)
    \/ \E h \in Handlers, d \in DOMAIN Documents : ReadText(h, d)
    \/ \E h \in Handlers : Parsed(h)
    \/ \E h \in Handlers : BeginAggregation(h)
    \/ AggregateDay
    \/ AggregateRoom
    \/ AggregateEvent
    \/ AggregateEndRoom
    \/ AggregateEndDay
    \/ AggregateFinish
    \/ \E h \in Handlers : Completed(h)
    \/ \E h \in Handlers, ok \in BOOLEAN : Stored(h, ok)
    \/ LoadModule

SpecRuns == InitRuns /\ [][NextRuns]_vars

----------------------------------------------------------------------------
(* Properties. *)

\* an event iteration has just run in this step
EventStep == nEvents' = nEvents + 1

\* the title contains "canceled" in any letter case
IsCanceledTitle(title) ==
    \E i \in 1..(Len(title) - 7) :
        toLowerCase(SubSeq(title, i, i + 7)) = <<"c", "a", "n", "c", "e", "l", "e", "d">>

\* C1: in every state of the aggregation, the final result included, the types
\* table has exactly the keys keynote, maintrack, devroom, lightningtalk, other
\* and the buildings table exactly the keys J, H, AW, U, K.
C1_StaticKeys ==
    /\ DOMAIN types = {"keynote", "maintrack", "devroom", "lightningtalk", "other"}
    /\ DOMAIN buildings = {"J", "H", "AW", "U", "K"}

\* a finished run that accepted an event of unrecognized type text in a room of
\* an unrecognized building
C1_Witness ==
    /\ pc = "done"
    /\ \E i \in 1..Len(accepted) :
        /\ accepted[i].type = "other"
        /\ buildingIdOf(accepted[i].room) = "D"

\* C2: an event iteration over an event whose title contains "canceled" (any
\* letter case) changes no table and no aggregate, and no event of the event
\* table stems from such a title.
C2_CanceledLeavesNoTrace ==
    [][(EventStep /\ IsCanceledTitle(xmlEvent'.title)) =>
          /\ UNCHANGED <<types, buildings, days, rooms, tracks, events, dayInfo, accepted>>
          /\ xmlEvent'.id \in DOMAIN events' =>
                events'[xmlEvent'.id].title # xmlEvent'.title]_vars

\* a canceled event was just iterated in a room that already counts an event
C2_Witness ==
    /\ pc = "events"
    /\ IsCanceledTitle(xmlEvent.title)
    /\ rooms[getRoomName(room.name)].eventCount > 0
    /\ xmlEvent.id \in DOMAIN events

\* the positions of the accepted events that satisfy P
AcceptedWhere(P(_)) == {i \in 1..Len(accepted) : P(accepted[i])}

\* C3 (as claimed): in the final result every building's roomCount is the number
\* of rooms of the room table whose building id is that building.
C3_RoomCountIsDistinctRooms ==
    pc = "done" =>
        \A b \in DOMAIN buildings :
            buildings[b].roomCount =
                Cardinality({r \in DOMAIN rooms : rooms[r].buildingId = b})

\* C4 (as claimed): in the final result every building's eventCount is the
\* number of accepted events processed in rooms of that building.
C4_EventCountIsAcceptedEvents ==
    pc = "done" =>
        \A b \in DOMAIN buildings :
            buildings[b].eventCount =
                Cardinality(AcceptedWhere(LAMBDA e : buildingIdOf(e.room) = b))

\* C5: the event table has exactly the ids of the accepted events, and the entry
\* of an id is the accepted event with that id that was processed last.
C5_LastWriteWins ==
    /\ DOMAIN events = {accepted[i].id : i \in 1..Len(accepted)}
    /\ \A i \in 1..Len(accepted) :
          (\A j \in (i + 1)..Len(accepted) : accepted[j].id # accepted[i].id)
              => events[accepted[i].id] = accepted[i]

\* a finished run in which two different accepted events carried the same id
C5_Witness ==
    /\ pc = "done"
    /\ \E i, j \in 1..Len(accepted) :
          i < j /\ accepted[i].id = accepted[j].id /\ accepted[i] # accepted[j]

\* the track key of a raw track name: lower-cased, all whitespace removed
TrackKeyOf(track) ==
    LET lower == toLowerCase(track)
    IN  SelectSeq(lower, LAMBDA c : c \notin {" ", "\t", "\n", "\r"})

\* the position of the first accepted event that satisfies P
FirstAccepted(P(_)) ==
    CHOOSE i \in AcceptedWhere(P) : \A j \in AcceptedWhere(P) : i <= j

C7_TrackDayList ==
    \A k \in DOMAIN tracks :
        LET day == tracks[k].day
            firstOn(d) == FirstAccepted(LAMBDA e : TrackKeyOf(e.track) = k /\ e.day = d)
        IN  /\ \A i, j \in 1..Len(day) : i # j => day[i] # day[j]
            /\ {day[i] : i \in 1..Len(day)} =
                  {accepted[i].day : i \in AcceptedWhere(LAMBDA e : TrackKeyOf(e.track) = k)}
            /\ \A i, j \in 1..Len(day) : i < j => firstOn(day[i]) < firstOn(day[j])

\* a track whose events came first on day 2 and then on day 1
C7_Witness ==
    \E k \in DOMAIN tracks : tracks[k].day = <<2, 1>> /\ tracks[k].eventCount = 2

\* the post-normalization name of a raw room name
NormalizedName(name) ==
    IF Len(name) >= 2 /\ name[1] = "D" /\ name[2] = "."
    THEN name \o <<" ", "(", "o", "n", "l", "i", "n", "e", ")">>
    ELSE name

\* a room iteration has just begun in this step
RoomStep == nRooms' = nRooms + 1

ExcludedByRule(raw, resolvedType) ==
    \/ raw.title = <<>>
    \/ IsCanceledTitle(raw.title)
    \/ raw.type = ""
    \/ raw.track = <<>>
    \/ (resolvedType = "other" /\ raw.track = <<"s", "t", "a", "n", "d">>)

\* C9: after an event iteration, the event is absent from the event table and
\* from the accepted events exactly when it has no title text, its title
\* contains "canceled" in any letter case, it has no type or no track text, or
\* its resolved type is "other" and its raw track is exactly "stand"; every other
\* event is in the event table under its id.
C9_ExclusionRule ==
    xmlEvent # NoEvent =>
        IF ExcludedByRule(xmlEvent, getType(xmlEvent))
        THEN accepted = <<>> /\ events = <<>>
        ELSE /\ Len(accepted) = 1
             /\ DOMAIN events = {xmlEvent.id}
             /\ events[xmlEvent.id] = accepted[1]
             /\ events[xmlEvent.id].id = xmlEvent.id
             /\ events[xmlEvent.id].track = xmlEvent.track

\* an accepted event whose track is "stand": its type is not "other"
C9_Witness ==
    /\ xmlEvent.track = <<"s", "t", "a", "n", "d">>
    /\ xmlEvent.type = "devroom"
    /\ xmlEvent.id \in DOMAIN events

\* the session type the claim resolves a raw type text to
ClaimedType(type) ==
    IF type = "lightning" THEN "lightningtalk"
    ELSE IF type = "lecture" THEN "keynote"
    ELSE IF type \in {"keynote", "maintrack", "devroom", "lightningtalk", "other"} THEN type
    ELSE "other"

\* C10 (as claimed): every event of the event table has the session type the
\* rule resolves its raw type to, which is one of the five keys of the types
\* table, and is counted in that type's eventCount.
C10_TypeResolution ==
    (xmlEvent # NoEvent /\ xmlEvent.id \in DOMAIN events) =>
        LET type == events[xmlEvent.id].type IN
        /\ type = ClaimedType(xmlEvent.type)
        /\ type \in DOMAIN types
        /\ types[type].eventCount = 1

\* C11: in the final result every session type's trackCount is the number of
\* track records of that type, its roomCount the number of distinct rooms that
\* hosted an accepted event of that type, and its buildingCount the number of
\* distinct building ids inferred from those rooms.
C11_FinalTypeCounts ==
    pc = "done" =>
        \A t \in DOMAIN types :
            LET ofType == AcceptedWhere(LAMBDA e : e.type = t) IN
            /\ types[t].trackCount =
                  Cardinality({k \in DOMAIN tracks : tracks[k].type = t})
            /\ types[t].roomCount = Cardinality({accepted[i].room : i \in ofType})
            /\ types[t].buildingCount =
                  Cardinality({buildingIdOf(accepted[i].room) : i \in ofType})

\* a finished run in which a type hosted an event in a room but owns no track
\* (the event's track was created by an event of another type), and another
\* type owns that track
C11_Witness ==
    /\ pc = "done"
    /\ \E t, u \in DOMAIN types :
          /\ types[t].roomCount = 1 /\ types[t].buildingCount = 1
          /\ types[t].trackCount = 0
          /\ types[u].trackCount = 1

\* C12 (as claimed): in the final result the Day record of every day index has
\* the eventCount, roomCount, buildingCount and trackCount of the accepted
\* events processed under that day index.
C12_FinalDayCounts ==
    pc = "done" =>
        /\ \A i \in 1..Len(accepted) : accepted[i].day \in DOMAIN days
        /\ \A d \in DOMAIN days :
              LET onDay == AcceptedWhere(LAMBDA e : e.day = d) IN
              /\ days[d].eventCount = Cardinality(onDay)
              /\ days[d].roomCount = Cardinality({accepted[i].room : i \in onDay})
              /\ days[d].buildingCount =
                    Cardinality({buildingIdOf(accepted[i].room) : i \in onDay})
              /\ days[d].trackCount =
                    Cardinality({TrackKeyOf(accepted[i].track) : i \in onDay})

\* the room name begins with prefix
BeginsWith(name, prefix) ==
    /\ Len(name) >= Len(prefix)
    /\ \A i \in 1..Len(prefix) : name[i] = prefix[i]

\* C17: an accepted event in a room named "B.", "I." or "S." something has no
\* stream entry and one in any other room exactly one; its chat link is non-null
\* exactly when the room name begins with one uppercase letter and a dot, and is
\* then the chat link of the room name less its first two characters.
C17_StreamsAndChat ==
    \A i \in 1..Len(accepted) :
        LET e == accepted[i]
            noStream == \/ BeginsWith(e.room, <<"B", ".">>)
                        \/ BeginsWith(e.room, <<"I", ".">>)
                        \/ BeginsWith(e.room, <<"S", ".">>)
            letterDot == /\ Len(e.room) >= 2
                         /\ e.room[1] \in UpperCase
                         /\ e.room[2] = "."
        IN  /\ Len(e.streams) = (IF noStream THEN 0 ELSE 1)
            /\ (e.chat # <<>>) <=> letterDot
            /\ letterDot =>
                  e.chat = ChatLink(SubSeq(e.room, 3, Len(e.room)))

\* an accepted event in an "S." room: no stream, but a chat link
C17_Witness ==
    \E i \in 1..Len(accepted) :
        /\ BeginsWith(accepted[i].room, <<"S", ".">>)
        /\ accepted[i].streams = <<>>
        /\ accepted[i].chat # <<>>

\* the title contains "amendment" in any letter case
IsAmendmentTitle(title) ==
    \E i \in 1..(Len(title) - 8) :
        toLowerCase(SubSeq(title, i, i + 8)) =
            <<"a", "m", "e", "n", "d", "m", "e", "n", "t">>

\* C18: an accepted event has status amendment exactly when its raw title
\* contains "amendment" in any letter case, and status running otherwise; with
\* status amendment it is stored with its title less the first 10 characters, or
\* with the whole title when nothing is left, and with status running with its
\* title as it came.
C18_AmendmentTitle ==
    (xmlEvent # NoEvent /\ accepted # <<>>) =>
        LET e == accepted[1]
            raw == xmlEvent.title
        IN  /\ ~IsCanceledTitle(raw)
            /\ e.status = (IF IsAmendmentTitle(raw) THEN "amendment" ELSE "running")
            /\ e.title = (IF IsAmendmentTitle(raw) /\ Len(raw) > 10
                          THEN SubSeq(raw, 11, Len(raw))
                          ELSE raw)

\* an accepted amendment whose title is just 10 characters long keeps its title
C18_Witness ==
    /\ accepted # <<>>
    /\ Len(xmlEvent.title) = 10
    /\ accepted[1].status = "amendment"
    /\ accepted[1].title = xmlEvent.title

\* the sum of eventCount over the records of a table
RECURSIVE SumEventCount(_, _)
SumEventCount(table, keys) ==
    IF keys = {} THEN 0
    ELSE LET k == CHOOSE x \in keys : TRUE
         IN  table[k].eventCount + SumEventCount(table, keys \ {k})

\* C19 (as claimed): in every state the eventCount sums of the room records, of
\* the track records and of the session type records all equal the number of
\* accepted events so far, and the event table has at most that many entries,
\* and exactly that many when the accepted ids are pairwise distinct.
C19_EventCountSums ==
    LET n == Len(accepted) IN
    /\ SumEventCount(rooms, DOMAIN rooms) = n
    /\ SumEventCount(tracks, DOMAIN tracks) = n
    /\ SumEventCount(types, DOMAIN types) = n
    /\ Cardinality(DOMAIN events) <= n
    /\ (\A i, j \in 1..n : i # j => accepted[i].id # accepted[j].id)
          => Cardinality(DOMAIN events) = n

\* the result tables of the call on the stack
resultTables == <<types, buildings, days, rooms, tracks, events>>

\* C13: any two runs of the aggregation on the same document have the same
\* outcome in every table, the conference record included, whether they ran one
\* after the other in the same process (the second with the caches the first
\* left) or in separate processes (the outcome of a run that had a fresh
\* process to itself is kept in reference).
C13_SameInputSameResult ==
    \A h \in Handlers :
        runs[h].result # NoResult =>
            /\ runs[h].doc \in DOMAIN reference =>
                  runs[h].result = reference[runs[h].doc]
            /\ \A o \in Handlers :
                  (runs[o].result # NoResult /\ runs[o].doc = runs[h].doc) =>
                      runs[o].result = runs[h].result

\* both handlers' runs have returned a result for the same document, which a run
\* in a fresh process had aggregated before, and the caches are filled
C13_Witness ==
    /\ \A h \in Handlers : runs[h].pc = "returned"
    /\ runs["fetch"].doc = runs["scheduled"].doc
    /\ runs["fetch"].doc \in DOMAIN reference
    /\ runs["fetch"].result = runs["scheduled"].result
    /\ runs["fetch"].result.rooms # <<>>
    /\ roomNameCache # <<>>
    /\ statusCache # <<>>

\* the dates of the day elements of a document, in document order
DayDates(d) ==
    LET dayElements == SelectSeq(Documents[d].elements, LAMBDA e : e.kind = "day")
    IN  [i \in 1..Len(dayElements) |-> dayElements[i].date]

\* C14 (as claimed): the days field of the conference record of a parsed
\* document is the list of the dates of its day elements, in document order.
C14_ConferenceDays ==
    \A h \in Handlers :
        runs[h].conference # NoResult =>
            runs[h].conference.days = DayDates(runs[h].doc)

\* a year key of exactly four digits
FourDigits(year) ==
    /\ Len(year) = 4
    /\ \A i \in 1..Len(year) : year[i] \in Digits

\* C15: a run started with a year key that is not exactly four digits is
\* rejected in that step, with nothing retrieved, aggregated or written; a run
\* whose retrieval fails or is not OK is rejected in that step, with nothing
\* aggregated or written; a rejected run returns nothing; and the store changes
\* only in the step in which a run with a four-digit year, an OK response and a
\* finished aggregation writes its result under its year and returns it.
C15_WriteOnlyAfterSuccess ==
    [][ /\ \A h \in Handlers :
              /\ (runs[h].pc \notin InFlight /\ runs'[h] # runs[h]) =>
                    IF FourDigits(runs'[h].year)
                    THEN runs'[h] = [NoRun EXCEPT !.pc = "fetch", !.year = runs'[h].year]
                    ELSE /\ runs'[h] = [NoRun EXCEPT !.pc = "rejected",
                                                     !.year = runs'[h].year]
                         /\ store' = store
                         /\ resultTables' = resultTables
              /\ (runs[h].pc = "fetch" /\ runs'[h] # runs[h] /\ runs'[h].response # "ok") =>
                    /\ runs'[h].pc = "rejected"
                    /\ runs'[h].doc = "none"
                    /\ runs'[h].result = NoResult
                    /\ store' = store
                    /\ resultTables' = resultTables
                    /\ owner' = "none"
              /\ (runs[h].pc # "returned" /\ runs'[h].pc = "returned") =>
                    /\ runs[h].pc = "put"
                    /\ store'[runs[h].year] = runs[h].result
        /\ store' # store =>
              \E h \in Handlers :
                  /\ runs[h].pc = "put"
                  /\ runs'[h].pc = "returned"
                  /\ FourDigits(runs[h].year)
                  /\ runs[h].response = "ok"
                  /\ runs[h].result \notin {NoResult, Thrown}
                  /\ store' = cacheSet(store, runs[h].year, runs[h].result)
      ]_vars

\* one run was rejected for its year, one for its response, and neither wrote:
\* the store holds what an earlier run wrote
C15_Witness ==
    /\ runs["fetch"].pc = "rejected"
    /\ runs["fetch"].year = <<"2", "0", "2">>
    /\ runs["scheduled"].pc = "rejected"
    /\ runs["scheduled"].response = "notOk"
    /\ DOMAIN store = {<<"2", "0", "2", "6">>}

\* the number of document elements the call on the stack has consumed
consumed == nDays + nRooms + nEvents

\* C16: while a processScheduleData call is on the stack no other run takes a
\* step; the result tables change only in steps of the call on the stack; that
\* call consumes the elements of its own run's document, in document order; and
\* a run that finishes its aggregation while another run is in flight hands
\* back the outcome a run with a fresh process to itself had for the document.
C16_OverlappingRunsIsolated ==
    [][ /\ owner # "none" =>
              \A o \in Handlers \ {owner} : runs'[o] = runs[o]
        /\ resultTables' # resultTables =>
              /\ owner' # "none"
              /\ owner = "none" \/ owner' = owner
        /\ (owner # "none" /\ consumed' = consumed + 1) =>
              /\ owner' = owner
              /\ LET e == Documents[runs[owner].doc].elements[consumed']
                 IN  CASE e.kind = "day"   -> dayInfo'.id = e.index
                       [] e.kind = "room"  -> room' = e.room
                       [] e.kind = "event" -> xmlEvent' = e.event
        /\ \A h \in Handlers :
              ( /\ runs[h].result = NoResult
                /\ runs'[h].result # NoResult
                /\ \E o \in Handlers \ {h} : runs[o].pc \in InFlight
                /\ runs[h].doc \in DOMAIN reference ) =>
                  runs'[h].result = reference[runs[h].doc]
      ]_vars

\* the scheduled run is aggregating its document while the fetch run, which has
\* aggregated another one with the reference outcome, awaits the store
C16_Witness ==
    /\ owner = "scheduled"
    /\ pc = "events"
    /\ runs["fetch"].pc = "put"
    /\ runs["fetch"].doc # runs["scheduled"].doc
    /\ runs["fetch"].doc \in DOMAIN reference
    /\ runs["fetch"].result = reference[runs["fetch"].doc]
    /\ runs["scheduled"].doc \in DOMAIN reference

====
